---------------------------- MODULE Spec2Model ----------------------------
(***************************************************************************)
(* FixedArena<N, MaxDtors> of fixed-arena/main.cpp: a bump allocator over  *)
(* a fixed byte buffer with a bounded list of destructors that reset() and *)
(* the destructor of the arena run in reverse order.                       *)
(*                                                                         *)
(* Addresses are integers; nullptr is 0.  An object is known by the        *)
(* ordinal of its construction.  The variables objs, made, prev, calls,    *)
(* ncalls and last are history variables: they record what the operations  *)
(* did and are never read by the operations themselves.                    *)
(*                                                                         *)
(* The module also holds the program of raii-logger/main.cpp (Logger,      *)
(* ScopedLock, three writer threads; specification LoggerSpec) and the     *)
(* class FileHandle under any sequence of its operations (specification    *)
(* FileSpec).  The three programs share no state: each specification       *)
(* leaves the variables of the other two at their initial values.          *)
(***************************************************************************)
EXTENDS Integers, Sequences, FiniteSets

(* Bounds of the model. *)
MaxCapacity == 16
SmallCapacity == 8
MaxDtors == 3
MaxCalls == 4

(* alignof(std::max_align_t) on the usual 64-bit platforms. *)
MaxAlign == 16

(* The template parameter N of the instantiations explored. *)
Capacities == {SmallCapacity, MaxCapacity}

(* The address of buffer_[0]: alignas(std::max_align_t), so a multiple of  *)
(* MaxAlign.                                                               *)
buffer_ == 4 * MaxAlign

(* The types T that make<T> is instantiated with, as sizeof(T), alignof(T):*)
(* alignof is a power of two not above MaxAlign and divides sizeof.        *)
(* [4,4] is Widget.                                                        *)
Types ==
    { [size |-> 1, align |-> 1], [size |-> 8, align |-> 1],
      [size |-> 4, align |-> 4], [size |-> 8, align |-> 8],
      [size |-> 16, align |-> 16] }

NullType == [size |-> 0, align |-> 0]
nullptr == 0

(* DtorEntry{}: a value-initialised entry of dtors_. *)
DtorEntry(fn, ptr) == [fn |-> fn, ptr |-> ptr]
NullEntry == DtorEntry(NullType, nullptr)

VARIABLES
    N,            \* template parameter: the capacity of buffer_
    offset_,      \* std::size_t offset_
    dtors_,       \* DtorEntry dtors_[MaxDtors]
    dtor_count_,  \* std::size_t dtor_count_
    pc,           \* "live", "aborted" (::abort() was called), "destroyed"
    objs,         \* history: every object constructed, by ordinal
    made,         \* history: ordinals of the objects made since the last reset
    prev,         \* history: made, as it was when the last reset began
    calls,        \* history: the make calls since the last reset
    ncalls,       \* history: the number of make calls so far
    last          \* history: the last operation, with the state before it

vars == <<N, offset_, dtors_, dtor_count_, pc,
          objs, made, prev, calls, ncalls, last>>

arena == <<offset_, dtors_, dtor_count_>>

(* raii-logger/main.cpp: the loops of main. *)
NumThreads == 3
NumMessages == 5

(* Bounds of the FileHandle model. *)
MaxHandles == 3
MaxFiles == 2
MaxLines == 1

VARIABLES
    lpc,      \* where main (index NumThreads) and each writer thread stand
    li,       \* the loop variable i of main
    tj,       \* the loop variable j of each writer thread
    file_,    \* Logger::file_.fp_: nullptr or the FILE* fopen returned
    mu_,      \* Logger::mu_: its owner, or Free
    written,  \* app.log: the complete lines (text, then its '\n') of each writer
    partial,  \* app.log: the writer of a last text not yet followed by '\n', or Free
    torn,     \* app.log: some text or '\n' was appended inside another line
    nopen,    \* history: successful fopen calls
    nclose,   \* history: fclose calls
    nlock,    \* history: mu_.lock() calls returned, per caller
    nunlock,  \* history: mu_.unlock() calls, per caller
    ub,       \* history: mu_ was unlocked by a thread that did not own it
    caught    \* what main's catch handler received, "" if nothing

lvars == <<lpc, li, tj, file_, mu_, written, partial, torn,
           nopen, nclose, nlock, nunlock, ub, caught>>

VARIABLES
    fp_,      \* FileHandle::fp_ of each handle object: nullptr or a FILE*
    alive,    \* whether each handle object is within its lifetime
    fstate,   \* each FILE: "unopened", "open" or "closed"
    closes,   \* history: fclose calls on each FILE
    lines,    \* the lines written to each FILE
    fub,      \* history: a FILE was used or closed after its fclose
    flast     \* history: the last operation on a handle

fvars == <<fp_, alive, fstate, closes, lines, fub, flast>>

allvars == <<vars, lvars, fvars>>

(* x & ~m on std::size_t, bit by bit (~m has every higher bit set). *)
RECURSIVE AndNot(_, _)
AndNot(x, m) ==
    IF x = 0 THEN 0
    ELSE (IF x % 2 = 1 /\ m % 2 = 0 THEN 1 ELSE 0)
         + 2 * AndNot(x \div 2, m \div 2)

align_up_noround(x, alignment) == x

align_up(x, alignment) ==
    LET mask == alignment - 1
    IN  AndNot(x + mask, mask)

(* allocate_aligned: the pointer returned and the new value of offset_. *)
allocate_aligned_nocheck(size, alignment) ==
    LET aligned == align_up(offset_, alignment)
    IN  [ptr |-> buffer_ + aligned, offset |-> aligned + size]

allocate_aligned_ge(size, alignment) ==
    LET aligned == align_up(offset_, alignment)
    IN  IF aligned + size >= N
        THEN [ptr |-> nullptr, offset |-> offset_]
        ELSE [ptr |-> buffer_ + aligned, offset |-> aligned + size]

allocate_aligned_nobump(size, alignment) ==
    LET aligned == align_up(offset_, alignment)
    IN  IF aligned + size > N
        THEN [ptr |-> nullptr, offset |-> offset_]
        ELSE [ptr |-> buffer_ + aligned, offset |-> aligned]

allocate_aligned_nopad(size, alignment) ==
    LET aligned == align_up(offset_, alignment)
    IN  IF aligned + size > N
        THEN [ptr |-> nullptr, offset |-> offset_]
        ELSE [ptr |-> buffer_ + aligned, offset |-> offset_ + size]

allocate_aligned_fromzero(size, alignment) ==
    LET aligned == align_up(0, alignment)
    IN  IF aligned + size > N
        THEN [ptr |-> nullptr, offset |-> offset_]
        ELSE [ptr |-> buffer_ + aligned, offset |-> aligned + size]

allocate_aligned(size, alignment) ==
    LET current == offset_
        aligned == align_up(current, alignment)
    IN  IF aligned + size > N
        THEN [ptr |-> nullptr, offset |-> offset_]
        ELSE [ptr |-> buffer_ + aligned, offset |-> aligned + size]

(* push_dtor<T>(obj): whether it calls ::abort(), and otherwise the new    *)
(* values of dtors_ and dtor_count_.                                       *)
push_dtor_gt(T, obj) ==
    IF dtor_count_ > MaxDtors
    THEN [abort |-> TRUE, dtors |-> dtors_, count |-> dtor_count_]
    ELSE [abort |-> FALSE,
          dtors |-> [dtors_ EXCEPT ![dtor_count_] = DtorEntry(T, obj)],
          count |-> dtor_count_ + 1]

push_dtor_noinc(T, obj) ==
    IF dtor_count_ >= MaxDtors
    THEN [abort |-> TRUE, dtors |-> dtors_, count |-> dtor_count_]
    ELSE [abort |-> FALSE,
          dtors |-> [dtors_ EXCEPT ![dtor_count_] = DtorEntry(T, obj)],
          count |-> dtor_count_]

push_dtor(T, obj) ==
    IF dtor_count_ >= MaxDtors
    THEN [abort |-> TRUE, dtors |-> dtors_, count |-> dtor_count_]
    ELSE [abort |-> FALSE,
          dtors |-> [dtors_ EXCEPT ![dtor_count_] = DtorEntry(T, obj)],
          count |-> dtor_count_ + 1]

(* The object living at address p: the last one constructed there. *)
ObjAt(os, p) ==
    CHOOSE k \in 1..Len(os) :
        /\ os[k].addr = p
        /\ \A j \in 1..Len(os) : os[j].addr = p => j <= k

(* destroy<T>(p): runs ~T() on the object at p.  st = [objs, log]. *)
destroy(e, st) ==
    LET k == ObjAt(st.objs, e.ptr)
    IN  [objs |-> [st.objs EXCEPT ![k].dtors = @ + 1],
         log  |-> Append(st.log, k)]

(* The loop of reset(): for (i = dtor_count_; i > 0; --i) dtors_[i-1].fn(..) *)
RECURSIVE RunDtors(_, _)
RunDtors(i, st) ==
    IF i = 0 THEN st
    ELSE RunDtors(i - 1, destroy(dtors_[i - 1], st))

(* The same entries visited from the first to the last. *)
RECURSIVE RunDtorsForward(_, _)
RunDtorsForward(i, st) ==
    IF i = 0 THEN st
    ELSE destroy(dtors_[i - 1], RunDtorsForward(i - 1, st))

(* Every entry of dtors_ that was ever written, whatever dtor_count_ says. *)
RECURSIVE RunDtorsStale(_, _)
RunDtorsStale(i, st) ==
    IF i = 0 THEN st
    ELSE RunDtorsStale(i - 1, IF dtors_[i - 1] = NullEntry THEN st
                              ELSE destroy(dtors_[i - 1], st))

Snapshot(op, T) ==
    [op |-> op, prevReset |-> (last.op = "reset"), T |-> T, result |-> nullptr,
     aborted |-> FALSE,
     offset |-> offset_, count |-> dtor_count_, dtors |-> dtors_,
     made |-> made, nobjs |-> Len(objs), finalized |-> << >>]

(* Writer threads are 0..NumThreads-1, as the i of main; main itself is    *)
(* NumThreads.  Free is the owner of an unlocked mutex.                    *)
Threads == 0..(NumThreads - 1)
Main == NumThreads
Callers == Threads \cup {Main}
Free == NumThreads + 1

(* Before main of raii-logger runs. *)
LoggerInit ==
    /\ lpc = [w \in Callers |-> IF w = Main THEN "start" ELSE "unborn"]
    /\ li = 0
    /\ tj = [w \in Threads |-> 0]
    /\ file_ = nullptr
    /\ mu_ = Free
    /\ written = [w \in Callers |-> 0]
    /\ partial = Free
    /\ torn = FALSE
    /\ nopen = 0
    /\ nclose = 0
    /\ nlock = [w \in Callers |-> 0]
    /\ nunlock = [w \in Callers |-> 0]
    /\ ub = FALSE
    /\ caught = ""

Handles == 1..MaxHandles
Files == 1..MaxFiles

(* No FileHandle object yet and no FILE opened. *)
FilesInit ==
    /\ fp_ = [h \in Handles |-> nullptr]
    /\ alive = [h \in Handles |-> FALSE]
    /\ fstate = [f \in Files |-> "unopened"]
    /\ closes = [f \in Files |-> 0]
    /\ lines = [f \in Files |-> 0]
    /\ fub = FALSE
    /\ flast = [op |-> "none", h |-> 0, other |-> 0, fp |-> nullptr,
                threw |-> "", lines |-> [f \in Files |-> 0]]

ArenaInit ==
    /\ N \in Capacities
    /\ offset_ = 0
    /\ dtors_ = [i \in 0..(MaxDtors - 1) |-> NullEntry]
    /\ dtor_count_ = 0
    /\ pc = "live"
    /\ objs = << >>
    /\ made = << >>
    /\ prev = << >>
    /\ calls = << >>
    /\ ncalls = 0
    /\ last = [op |-> "none", prevReset |-> FALSE, T |-> NullType,
               result |-> nullptr, aborted |-> FALSE,
               offset |-> 0, count |-> 0,
               dtors |-> [i \in 0..(MaxDtors - 1) |-> NullEntry],
               made |-> << >>, nobjs |-> 0, finalized |-> << >>]

Init == ArenaInit /\ LoggerInit /\ FilesInit

(* make<T>(args...) *)
make(T) ==
    /\ pc = "live"
    /\ ncalls < MaxCalls
    /\ ncalls' = ncalls + 1
    /\ LET mem == allocate_aligned(T.size, T.align)
           pushed == push_dtor(T, mem.ptr)
       IN  IF mem.ptr = nullptr
           THEN \* if (!mem) return nullptr;
                /\ UNCHANGED <<arena, pc, objs, made>>
                /\ calls' = Append(calls, [T |-> T, result |-> nullptr])
                /\ last' = Snapshot("make", T)
           ELSE \* T* obj = ::new (mem) T(...); push_dtor<T>(obj); return obj;
                /\ offset_' = mem.offset
                /\ objs' = Append(objs, [T |-> T, addr |-> mem.ptr, dtors |-> 0])
                /\ dtors_' = pushed.dtors
                /\ dtor_count_' = pushed.count
                /\ IF pushed.abort
                   THEN \* std::puts(...); ::abort(): make never returns
                        /\ pc' = "aborted"
                        /\ UNCHANGED <<made, calls>>
                        /\ last' = [Snapshot("make", T) EXCEPT !.aborted = TRUE]
                   ELSE /\ made' = Append(made, Len(objs) + 1)
                        /\ calls' = Append(calls, [T |-> T, result |-> mem.ptr])
                        /\ last' = [Snapshot("make", T) EXCEPT !.result = mem.ptr]
                        /\ UNCHANGED pc
    /\ UNCHANGED <<N, prev>>
    /\ UNCHANGED <<lvars, fvars>>

(* The body of reset(), shared by reset() and ~FixedArena(). *)
reset_keepcount(op) ==
    LET st == RunDtors(dtor_count_, [objs |-> objs, log |-> << >>])
    IN  /\ objs' = st.objs
        /\ offset_' = 0
        /\ UNCHANGED <<dtors_, dtor_count_>>
        /\ prev' = made
        /\ made' = << >>
        /\ calls' = << >>
        /\ last' = [Snapshot(op, NullType) EXCEPT !.finalized = st.log]

reset_norewind(op) ==
    LET st == RunDtors(dtor_count_, [objs |-> objs, log |-> << >>])
    IN  /\ objs' = st.objs
        /\ dtor_count_' = 0
        /\ UNCHANGED <<dtors_, offset_>>
        /\ prev' = made
        /\ made' = << >>
        /\ calls' = << >>
        /\ last' = [Snapshot(op, NullType) EXCEPT !.finalized = st.log]

reset_stale(op) ==
    LET st == RunDtorsStale(MaxDtors, [objs |-> objs, log |-> << >>])
    IN  /\ objs' = st.objs
        /\ dtor_count_' = 0
        /\ offset_' = 0
        /\ UNCHANGED dtors_
        /\ prev' = made
        /\ made' = << >>
        /\ calls' = << >>
        /\ last' = [Snapshot(op, NullType) EXCEPT !.finalized = st.log]

reset_forward(op) ==
    LET st == RunDtorsForward(dtor_count_, [objs |-> objs, log |-> << >>])
    IN  /\ objs' = st.objs
        /\ dtor_count_' = 0
        /\ offset_' = 0
        /\ UNCHANGED dtors_
        /\ prev' = made
        /\ made' = << >>
        /\ calls' = << >>
        /\ last' = [Snapshot(op, NullType) EXCEPT !.finalized = st.log]

reset_body(op) ==
    LET st == RunDtors(dtor_count_, [objs |-> objs, log |-> << >>])
    IN  /\ objs' = st.objs
        /\ dtor_count_' = 0
        /\ offset_' = 0
        /\ UNCHANGED dtors_
        /\ prev' = made
        /\ made' = << >>
        /\ calls' = << >>
        /\ last' = [Snapshot(op, NullType) EXCEPT !.finalized = st.log]

(* reset() *)
reset ==
    /\ pc = "live"
    /\ reset_body("reset")
    /\ UNCHANGED <<N, pc, ncalls>>
    /\ UNCHANGED <<lvars, fvars>>

(* ~FixedArena() { reset(); } *)
Teardown ==
    /\ pc = "live"
    /\ reset_body("teardown")
    /\ pc' = "destroyed"
    /\ UNCHANGED <<N, ncalls>>
    /\ UNCHANGED <<lvars, fvars>>

(* used() *)
used ==
    /\ pc = "live"
    /\ last' = [Snapshot("used", NullType) EXCEPT !.result = offset_]
    /\ UNCHANGED <<N, arena, pc, objs, made, prev, calls, ncalls>>
    /\ UNCHANGED <<lvars, fvars>>

(* capacity() *)
capacity ==
    /\ pc = "live"
    /\ last' = [Snapshot("capacity", NullType) EXCEPT !.result = N]
    /\ UNCHANGED <<N, arena, pc, objs, made, prev, calls, ncalls>>
    /\ UNCHANGED <<lvars, fvars>>

Next ==
    \/ \E T \in Types : make(T)
    \/ reset
    \/ Teardown
    \/ used
    \/ capacity

Spec == Init /\ [][Next]_allvars

-----------------------------------------------------------------------------
(* raii-logger/main.cpp.  lpc[w] names the statement caller w runs next.   *)
(* A call of Logger::log or Logger::log_then_throw goes through "lock"     *)
(* (ScopedLock's constructor), "check", "fputs", "fputc", "fflush" (the    *)
(* statements of FileHandle::write_line) and then "unlock" (log returns,   *)
(* ~ScopedLock) or "throw" (log_then_throw); "throw_closed" is write_line  *)
(* throwing "File is closed".                                              *)

(* m_.unlock() by caller w. *)
Release(w) ==
    /\ mu_' = Free
    /\ nunlock' = [nunlock EXCEPT ![w] = @ + 1]
    /\ ub' = (ub \/ mu_ # w)

(* Logger logger("app.log"): FileHandle's constructor, fopen succeeding or *)
(* failing; a failure is thrown to main's catch.                           *)
LoggerCtor ==
    /\ lpc[Main] = "start"
    /\ \/ /\ file_' = 1
          /\ nopen' = nopen + 1
          /\ lpc' = [lpc EXCEPT ![Main] = "spawn"]
          /\ UNCHANGED caught
       \/ /\ caught' = "Failed to open file"
          /\ lpc' = [lpc EXCEPT ![Main] = "catch"]
          /\ UNCHANGED <<file_, nopen>>
    /\ UNCHANGED <<li, tj, mu_, written, partial, torn, nclose, nlock, nunlock, ub>>
    /\ UNCHANGED <<vars, fvars>>

(* for (int i = 0; i < 3; ++i) threads.emplace_back(...) *)
Spawn ==
    /\ lpc[Main] = "spawn"
    /\ IF li < NumThreads
       THEN /\ lpc' = [lpc EXCEPT ![li] = "loop"]
            /\ li' = li + 1
       ELSE /\ lpc' = [lpc EXCEPT ![Main] = "join"]
            /\ li' = 0
    /\ UNCHANGED <<tj, file_, mu_, written, partial, torn,
                   nopen, nclose, nlock, nunlock, ub, caught>>
    /\ UNCHANGED <<vars, fvars>>

(* for (auto& t : threads) t.join(); then the call of log_then_throw *)
Join ==
    /\ lpc[Main] = "join"
    /\ IF li < NumThreads
       THEN /\ lpc[li] = "done"
            /\ li' = li + 1
            /\ UNCHANGED lpc
       ELSE /\ lpc' = [lpc EXCEPT ![Main] = "lock"]
            /\ UNCHANGED li
    /\ UNCHANGED <<tj, file_, mu_, written, partial, torn,
                   nopen, nclose, nlock, nunlock, ub, caught>>
    /\ UNCHANGED <<vars, fvars>>

(* for (int j = 0; j < 5; ++j) logger.log(...) of a writer thread *)
Loop(w) ==
    /\ w \in Threads
    /\ lpc[w] = "loop"
    /\ lpc' = [lpc EXCEPT ![w] = IF tj[w] < NumMessages THEN "lock" ELSE "done"]
    /\ UNCHANGED <<li, tj, file_, mu_, written, partial, torn,
                   nopen, nclose, nlock, nunlock, ub, caught>>
    /\ UNCHANGED <<vars, fvars>>

(* ScopedLock lock(mu_) written as the temporary ScopedLock(mu_): locked   *)
(* and unlocked at once.                                                   *)
Lock_temporary(w) ==
    /\ lpc[w] = "lock"
    /\ mu_ = Free
    /\ nlock' = [nlock EXCEPT ![w] = @ + 1]
    /\ nunlock' = [nunlock EXCEPT ![w] = @ + 1]
    /\ lpc' = [lpc EXCEPT ![w] = "check"]
    /\ UNCHANGED <<li, tj, file_, mu_, written, partial, torn,
                   nopen, nclose, ub, caught>>
    /\ UNCHANGED <<vars, fvars>>

(* ScopedLock lock(mu_): m_.lock() returns once the mutex is free. *)
Lock(w) ==
    /\ lpc[w] = "lock"
    /\ mu_ = Free
    /\ mu_' = w
    /\ nlock' = [nlock EXCEPT ![w] = @ + 1]
    /\ lpc' = [lpc EXCEPT ![w] = "check"]
    /\ UNCHANGED <<li, tj, file_, written, partial, torn,
                   nopen, nclose, nunlock, ub, caught>>
    /\ UNCHANGED <<vars, fvars>>

(* write_line: if (!fp_) throw std::runtime_error("File is closed"); *)
Check(w) ==
    /\ lpc[w] = "check"
    /\ lpc' = [lpc EXCEPT ![w] = IF file_ = nullptr THEN "throw_closed" ELSE "fputs"]
    /\ UNCHANGED <<li, tj, file_, mu_, written, partial, torn,
                   nopen, nclose, nlock, nunlock, ub, caught>>
    /\ UNCHANGED <<vars, fvars>>

(* write_line: std::fputs(line.c_str(), fp_) *)
Fputs(w) ==
    /\ lpc[w] = "fputs"
    /\ torn' = (torn \/ partial # Free)
    /\ partial' = w
    /\ lpc' = [lpc EXCEPT ![w] = "fputc"]
    /\ UNCHANGED <<li, tj, file_, mu_, written,
                   nopen, nclose, nlock, nunlock, ub, caught>>
    /\ UNCHANGED <<vars, fvars>>

(* write_line: std::fputc('\n', fp_) *)
Fputc(w) ==
    /\ lpc[w] = "fputc"
    /\ IF partial = w
       THEN /\ written' = [written EXCEPT ![w] = @ + 1]
            /\ UNCHANGED torn
       ELSE /\ torn' = TRUE
            /\ UNCHANGED written
    /\ partial' = Free
    /\ lpc' = [lpc EXCEPT ![w] = "fflush"]
    /\ UNCHANGED <<li, tj, file_, mu_,
                   nopen, nclose, nlock, nunlock, ub, caught>>
    /\ UNCHANGED <<vars, fvars>>

(* write_line: std::fflush(fp_), and write_line returns *)
Fflush(w) ==
    /\ lpc[w] = "fflush"
    /\ lpc' = [lpc EXCEPT ![w] = IF w = Main THEN "throw" ELSE "unlock"]
    /\ UNCHANGED <<li, tj, file_, mu_, written, partial, torn,
                   nopen, nclose, nlock, nunlock, ub, caught>>
    /\ UNCHANGED <<vars, fvars>>

(* The end of log with the mutex left locked. *)
Unlock_keep(w) ==
    /\ w \in Threads
    /\ lpc[w] = "unlock"
    /\ tj' = [tj EXCEPT ![w] = @ + 1]
    /\ lpc' = [lpc EXCEPT ![w] = "loop"]
    /\ UNCHANGED <<li, file_, mu_, written, partial, torn,
                   nopen, nclose, nlock, nunlock, ub, caught>>
    /\ UNCHANGED <<vars, fvars>>

(* The end of log: ~ScopedLock() { m_.unlock(); }, then ++j *)
Unlock(w) ==
    /\ w \in Threads
    /\ lpc[w] = "unlock"
    /\ Release(w)
    /\ tj' = [tj EXCEPT ![w] = @ + 1]
    /\ lpc' = [lpc EXCEPT ![w] = "loop"]
    /\ UNCHANGED <<li, file_, written, partial, torn,
                   nopen, nclose, nlock, caught>>
    /\ UNCHANGED <<vars, fvars>>

(* An exception leaving the call with no unlock on the way. *)
Unwind_nounlock(w) ==
    /\ lpc[w] \in {"throw", "throw_closed"}
    /\ IF w = Main
       THEN /\ caught' = (IF lpc[w] = "throw"
                          THEN "Intentional exception after writing"
                          ELSE "File is closed")
            /\ lpc' = [lpc EXCEPT ![Main] = "leave_try"]
       ELSE /\ lpc' = [v \in Callers |-> "terminated"]
            /\ UNCHANGED caught
    /\ UNCHANGED <<li, tj, file_, mu_, written, partial, torn,
                   nopen, nclose, nlock, nunlock, ub>>
    /\ UNCHANGED <<vars, fvars>>

(* An exception leaves log or log_then_throw.  In main the catch of main   *)
(* handles it, so the stack is unwound: ~ScopedLock() unlocks.  In a       *)
(* writer thread nothing catches it and std::terminate ends the process;   *)
(* whether the stack is unwound first, and so whether ~ScopedLock() runs,  *)
(* is implementation-defined: either may happen (g++ does not unwind, the  *)
(* mutex is still held at termination).                                    *)
Unwind(w) ==
    /\ lpc[w] \in {"throw", "throw_closed"}
    /\ IF w = Main
       THEN /\ Release(w)
            /\ caught' = (IF lpc[w] = "throw"
                          THEN "Intentional exception after writing"
                          ELSE "File is closed")
            /\ lpc' = [lpc EXCEPT ![Main] = "leave_try"]
       ELSE /\ \E unwound \in BOOLEAN :
                  IF unwound THEN Release(w)
                  ELSE UNCHANGED <<mu_, nunlock, ub>>
            /\ lpc' = [v \in Callers |-> "terminated"]
            /\ UNCHANGED caught
    /\ UNCHANGED <<li, tj, file_, written, partial, torn, nopen, nclose, nlock>>
    /\ UNCHANGED <<vars, fvars>>

(* The exception leaves the try block: threads and logger are destroyed,   *)
(* ~FileHandle() { close(); } closes the file if fp_ is set.               *)
LeaveTry ==
    /\ lpc[Main] = "leave_try"
    /\ IF file_ # nullptr
       THEN /\ nclose' = nclose + 1
            /\ file_' = nullptr
       ELSE UNCHANGED <<nclose, file_>>
    /\ lpc' = [lpc EXCEPT ![Main] = "catch"]
    /\ UNCHANGED <<li, tj, mu_, written, partial, torn,
                   nopen, nlock, nunlock, ub, caught>>
    /\ UNCHANGED <<vars, fvars>>

(* catch (const std::exception& e) { printf }, puts("Done..."), return 0 *)
Catch ==
    /\ lpc[Main] = "catch"
    /\ lpc' = [lpc EXCEPT ![Main] = "done"]
    /\ UNCHANGED <<li, tj, file_, mu_, written, partial, torn,
                   nopen, nclose, nlock, nunlock, ub, caught>>
    /\ UNCHANGED <<vars, fvars>>

LoggerNext ==
    \/ LoggerCtor
    \/ Spawn
    \/ Join
    \/ LeaveTry
    \/ Catch
    \/ \E w \in Threads : Loop(w)
    \/ \E w \in Callers : Lock(w)
    \/ \E w \in Callers : Check(w)
    \/ \E w \in Callers : Fputs(w)
    \/ \E w \in Callers : Fputc(w)
    \/ \E w \in Callers : Fflush(w)
    \/ \E w \in Threads : Unlock(w)
    \/ \E w \in Callers : Unwind(w)

LoggerSpec == Init /\ [][LoggerNext]_allvars

(* Some statement runs as long as one can: the threads are scheduled.      *)
FairLoggerSpec == LoggerSpec /\ WF_allvars(LoggerNext)

-----------------------------------------------------------------------------
(* class FileHandle, driven by any sequence of its operations on the       *)
(* handle objects Handles.  A FILE* is the number of its FILE.             *)

FileState == [fp |-> fp_, fstate |-> fstate, closes |-> closes, fub |-> fub]

(* close(): if (fp_) { std::fclose(fp_); fp_ = nullptr; } *)
close(h, st) ==
    IF st.fp[h] # nullptr
    THEN LET f == st.fp[h]
         IN  [fp     |-> [st.fp EXCEPT ![h] = nullptr],
              fstate |-> [st.fstate EXCEPT ![f] = "closed"],
              closes |-> [st.closes EXCEPT ![f] = @ + 1],
              fub    |-> (st.fub \/ st.fstate[f] # "open")]
    ELSE st

FileOp(op, h, o) ==
    [op |-> op, h |-> h, other |-> o, fp |-> fp_[h], threw |-> "", lines |-> lines]

SetFileState(st) ==
    /\ fp_' = st.fp
    /\ fstate' = st.fstate
    /\ closes' = st.closes
    /\ fub' = st.fub

(* FileHandle(path, mode): fp_(std::fopen(path, mode)), throwing when      *)
(* fopen returns null; the object then never begins to live.               *)
FileCtor(h) ==
    /\ ~alive[h]
    /\ \/ /\ \E f \in Files :
               /\ fstate[f] = "unopened"
               /\ \A g \in Files : fstate[g] = "unopened" => f <= g
               /\ fp_' = [fp_ EXCEPT ![h] = f]
               /\ fstate' = [fstate EXCEPT ![f] = "open"]
          /\ alive' = [alive EXCEPT ![h] = TRUE]
          /\ flast' = [FileOp("ctor", h, h) EXCEPT !.fp = nullptr]
       \/ /\ flast' = [FileOp("ctor", h, h) EXCEPT
                          !.fp = nullptr, !.threw = "Failed to open file"]
          /\ UNCHANGED <<fp_, fstate, alive>>
    /\ UNCHANGED <<closes, lines, fub>>
    /\ UNCHANGED <<vars, lvars>>

(* A move constructor that copies fp_ and leaves other.fp_ as it is. *)
FileMoveCtor_copy(h, o) ==
    /\ h # o /\ ~alive[h] /\ alive[o]
    /\ fp_' = [fp_ EXCEPT ![h] = fp_[o]]
    /\ alive' = [alive EXCEPT ![h] = TRUE]
    /\ flast' = [FileOp("move_ctor", h, o) EXCEPT !.fp = nullptr]
    /\ UNCHANGED <<fstate, closes, lines, fub>>
    /\ UNCHANGED <<vars, lvars>>

(* FileHandle(FileHandle&& other): fp_(other.fp_) { other.fp_ = nullptr; } *)
FileMoveCtor(h, o) ==
    /\ h # o /\ ~alive[h] /\ alive[o]
    /\ fp_' = [fp_ EXCEPT ![h] = fp_[o], ![o] = nullptr]
    /\ alive' = [alive EXCEPT ![h] = TRUE]
    /\ flast' = [FileOp("move_ctor", h, o) EXCEPT !.fp = nullptr]
    /\ UNCHANGED <<fstate, closes, lines, fub>>
    /\ UNCHANGED <<vars, lvars>>

(* operator=(FileHandle&& other): self-assignment does nothing *)
FileMoveAssign(h, o) ==
    /\ alive[h] /\ alive[o]
    /\ IF h # o
       THEN LET st == close(h, FileState)
            IN  SetFileState([st EXCEPT !.fp = [st.fp EXCEPT ![h] = st.fp[o],
                                                             ![o] = nullptr]])
       ELSE UNCHANGED <<fp_, fstate, closes, fub>>
    /\ flast' = FileOp("move_assign", h, o)
    /\ UNCHANGED <<alive, lines>>
    /\ UNCHANGED <<vars, lvars>>

(* ~FileHandle() { close(); } *)
FileDtor(h) ==
    /\ alive[h]
    /\ SetFileState(close(h, FileState))
    /\ alive' = [alive EXCEPT ![h] = FALSE]
    /\ flast' = FileOp("dtor", h, h)
    /\ UNCHANGED lines
    /\ UNCHANGED <<vars, lvars>>

(* write_line(line) *)
FileWriteLine(h) ==
    /\ alive[h]
    /\ IF fp_[h] = nullptr
       THEN /\ flast' = [FileOp("write_line", h, h) EXCEPT !.threw = "File is closed"]
            /\ UNCHANGED <<lines, fub>>
       ELSE /\ lines[fp_[h]] < MaxLines
            /\ lines' = [lines EXCEPT ![fp_[h]] = @ + 1]
            /\ fub' = (fub \/ fstate[fp_[h]] # "open")
            /\ flast' = FileOp("write_line", h, h)
    /\ UNCHANGED <<fp_, alive, fstate, closes>>
    /\ UNCHANGED <<vars, lvars>>

FileNext ==
    \/ \E h \in Handles : FileCtor(h)
    \/ \E h \in Handles : \E o \in Handles : FileMoveCtor(h, o)
    \/ \E h \in Handles : \E o \in Handles : FileMoveAssign(h, o)
    \/ \E h \in Handles : FileDtor(h)
    \/ \E h \in Handles : FileWriteLine(h)

FileSpec == Init /\ [][FileNext]_allvars

-----------------------------------------------------------------------------
(* Vocabulary of the properties. *)

(* The least multiple of a that is at least x. *)
RoundUp(x, a) == CHOOSE m \in x..(x + a - 1) : m % a = 0

Reverse(q) == [i \in 1..Len(q) |-> q[Len(q) + 1 - i]]

Char == [size |-> 1, align |-> 1]
Bytes8 == [size |-> 8, align |-> 1]
Widget == [size |-> 4, align |-> 4]
Aligned8 == [size |-> 8, align |-> 8]

IsReset == last.op \in {"reset", "teardown"}

(* The last operation was a make that did not hand an object to its caller:*)
(* it returned nullptr or it never returned.                               *)
MakeFailed == last.op = "make" /\ last.result = nullptr

(* The state of the arena is as it was before the last operation. *)
ArenaAsBefore ==
    /\ offset_ = last.offset
    /\ dtor_count_ = last.count
    /\ dtors_ = last.dtors

-----------------------------------------------------------------------------
(* C1. Ledger exhaustion is recoverable: a make called when the ledger     *)
(* holds MaxDtors entries and the bytes are there returns a failure        *)
(* (nullptr) to its caller and the process goes on.                        *)
C1_LedgerExhaustionRecoverable ==
    (/\ last.op = "make"
     /\ last.count = MaxDtors
     /\ RoundUp(last.offset, last.T.align) + last.T.size <= N)
    => (pc = "live" /\ ~last.aborted /\ last.result = nullptr)

(* C2. A failed make, for lack of bytes or for lack of a ledger slot,      *)
(* leaves offset and the ledger as they were and constructs no object.     *)
C2_FailedMakeChangesNothing ==
    MakeFailed => (ArenaAsBefore /\ Len(objs) = last.nobjs)

(* C3. Capacity boundary: with a free ledger slot, make<T> succeeds if and *)
(* only if round_up(offset, alignof(T)) + sizeof(T) <= capacity; otherwise *)
(* it returns nullptr and used() is unchanged.                             *)
C3_CapacityBoundary ==
    (last.op = "make" /\ last.count < MaxDtors)
    => LET fits == RoundUp(last.offset, last.T.align) + last.T.size <= N
       IN  /\ (last.result # nullptr) <=> fits
           /\ ~last.aborted
           /\ ~fits => offset_ = last.offset

(* Capacity 8: an object of size 8 and alignment 1 fills the arena, and a  *)
(* following allocation of size 1 fails with used() still 8.               *)
C3_Witness ==
    /\ N = 8
    /\ last.op = "make" /\ last.T = Char /\ last.result = nullptr
    /\ Len(made) = 1 /\ objs[made[1]].T = Bytes8
    /\ last.offset = 8 /\ offset_ = 8

(* C4. LIFO finalization: reset() runs the finalizers of the objects made  *)
(* since the last reset in the reverse of the order of their construction. *)
C4_LifoFinalization ==
    IsReset => last.finalized = Reverse(last.made)

(* The scenario of main: Widgets 1, 2, 3, then reset() destroys 3, 2, 1.   *)
C4_Witness ==
    /\ last.op = "reset"
    /\ Len(objs) = 3
    /\ \A k \in 1..3 : objs[k].T = Widget
    /\ last.offset = 12
    /\ last.finalized = <<3, 2, 1>>

(* C5. Exactly-once finalization: no finalizer runs twice; while the arena *)
(* lives, the objects not yet finalized are those made since the last      *)
(* reset; after a reset and after teardown every object constructed has    *)
(* been finalized exactly once.                                            *)
C5_ExactlyOnce ==
    /\ \A k \in 1..Len(objs) : objs[k].dtors <= 1
    /\ pc # "aborted" =>
          \A k \in 1..Len(objs) :
              objs[k].dtors = (IF \E i \in 1..Len(made) : made[i] = k THEN 0 ELSE 1)
    /\ (IsReset \/ pc = "destroyed") =>
          \A k \in 1..Len(objs) : objs[k].dtors = 1

(* An explicit reset of two objects, then teardown. *)
C5_Witness ==
    /\ pc = "destroyed"
    /\ last.op = "teardown" /\ last.prevReset
    /\ Len(objs) >= 2
    /\ \A k \in 1..Len(objs) : objs[k].dtors = 1

(* C6. Round trip: after reset(), used() == 0 and the ledger is empty, and *)
(* make calls that repeat, in order, the types of the makes that succeeded *)
(* before the reset succeed and return the same addresses.                 *)
C6_RoundTrip ==
    /\ IsReset => (offset_ = 0 /\ dtor_count_ = 0)
    /\ \A i \in 1..Len(calls) :
          (/\ i <= Len(prev)
           /\ \A j \in 1..i : calls[j].T = objs[prev[j]].T)
          => (calls[i].result # nullptr /\ calls[i].result = objs[prev[i]].addr)

(* Two objects, the second one after padding, made again after a reset. *)
C6_Witness ==
    /\ Len(prev) = 2 /\ Len(calls) = 2
    /\ objs[prev[1]].T = Char /\ objs[prev[2]].T = Widget
    /\ \A j \in 1..2 : calls[j].T = objs[prev[j]].T
    /\ calls[2].result = buffer_ + 4
    /\ offset_ = 8

(* C7. Reset idempotence: reset() on an empty arena, a fresh one or one    *)
(* just reset, runs no finalizer and changes no state.                     *)
C7_ResetIdempotent ==
    (/\ last.op = "reset"
     /\ \/ last.prevReset
        \/ (last.offset = 0 /\ last.count = 0))
    => (/\ last.finalized = << >>
        /\ ArenaAsBefore
        /\ offset_ = 0 /\ dtor_count_ = 0)

(* A second reset right after the reset of a populated arena. *)
C7_Witness ==
    /\ last.op = "reset" /\ last.prevReset
    /\ Len(prev) = 0 /\ Len(objs) >= 2
    /\ dtors_[0] # NullEntry

(* C8. Alignment: every address make<T> returns is at a buffer offset that *)
(* is a multiple of alignof(T), the buffer being max-aligned, and lies in  *)
(* [buffer_, buffer_ + N).                                                 *)
WellPlaced(addr, T) ==
    /\ (addr - buffer_) % T.align = 0
    /\ addr % T.align = 0
    /\ buffer_ <= addr /\ addr < buffer_ + N

C8_Alignment ==
    /\ buffer_ % MaxAlign = 0
    /\ \A k \in 1..Len(objs) : WellPlaced(objs[k].addr, objs[k].T)
    /\ \A i \in 1..Len(calls) :
          calls[i].result # nullptr => WellPlaced(calls[i].result, calls[i].T)
    /\ (last.op = "make" /\ last.result # nullptr)
          => WellPlaced(last.result, last.T)

(* An 8-aligned object placed after a single byte: 7 bytes of padding. *)
C8_Witness ==
    /\ last.op = "make" /\ last.T = Aligned8
    /\ last.offset = 1
    /\ last.result = buffer_ + 8

(* C9. No overlap: of two objects made with no reset between them, the     *)
(* later one begins at or after the end of the earlier one.                *)
C9_NoOverlap ==
    \A i \in 1..Len(made) : \A j \in 1..Len(made) :
        i < j => objs[made[j]].addr >= objs[made[i]].addr + objs[made[i]].T.size

(* Three live objects filling the arena of 16 bytes. *)
C9_Witness ==
    /\ Len(made) = 3
    /\ objs[made[1]].T = Char
    /\ objs[made[2]].T = Widget
    /\ objs[made[3]].T = Aligned8
    /\ offset_ = 16

(* C10. Offset bound: 0 <= offset_ <= N in every reachable state.          *)
C10_OffsetBound ==
    0 <= offset_ /\ offset_ <= N

(* A full arena, offset_ = N, that has just refused a make and been asked  *)
(* nothing else.                                                           *)
C10_Witness ==
    /\ N = MaxCapacity
    /\ offset_ = N
    /\ MakeFailed /\ pc = "live"
    /\ Len(made) = 2

(* C11. Ledger bound: dtor_count_ never exceeds MaxDtors, and the entry a  *)
(* successful make writes is at an index below MaxDtors, inside dtors_.    *)
C11_LedgerBound ==
    /\ dtor_count_ <= MaxDtors
    /\ DOMAIN dtors_ = 0..(MaxDtors - 1)
    /\ (last.op = "make" /\ last.result # nullptr)
          => /\ last.count < MaxDtors
             /\ dtors_ = [last.dtors EXCEPT
                             ![last.count] = DtorEntry(last.T, last.result)]

(* The make that takes the last slot of the ledger. *)
C11_Witness ==
    /\ last.op = "make" /\ last.result # nullptr
    /\ last.count = MaxDtors - 1
    /\ dtor_count_ = MaxDtors

(* C12. Result of a successful make<T> from offset o: used() is            *)
(* round_up(o, alignof(T)) + sizeof(T), padding included, and the ledger   *)
(* has one entry more.                                                     *)
C12_MakeResult ==
    /\ (last.op = "make" /\ last.result # nullptr)
          => /\ offset_ = RoundUp(last.offset, last.T.align) + last.T.size
             /\ dtor_count_ = last.count + 1
    /\ last.op = "used" => last.result = offset_

(* Three objects of size 4 and alignment 4: used() returns 12. *)
C12_Witness ==
    /\ last.op = "used" /\ last.result = 12
    /\ Len(made) = 3 /\ dtor_count_ = 3
    /\ \A i \in 1..3 : objs[made[i]].T = Widget

(* C13. Offset monotonicity: a step that is not a reset or the teardown    *)
(* never lowers offset_, and a successful make raises it.                  *)
C13_OffsetMonotone ==
    [][ last'.op \notin {"reset", "teardown"}
        => /\ offset_' >= offset_
           /\ (last'.op = "make" /\ last'.result # nullptr) => offset_' > offset_
      ]_vars

(* A failed make and then a query on an arena in use: offset_ stays. *)
C13_Witness ==
    /\ last.op = "capacity"
    /\ Len(calls) = 3 /\ calls[3].result = nullptr /\ calls[2].result # nullptr
    /\ offset_ = last.offset /\ offset_ > objs[made[1]].T.size

(* C14. The ledger mirrors the live objects: dtor_count_ is the number of  *)
(* successful makes since the last reset, entry i holds the address the    *)
(* i-th of them returned, and the ledger is empty exactly when offset_ is  *)
(* 0.                                                                      *)
Succeeded(c) == c.result # nullptr

C14_LedgerMirrorsLive ==
    LET ok == SelectSeq(calls, Succeeded)
    IN  /\ dtor_count_ = Len(made)
        /\ Len(ok) = Len(made)
        /\ \A i \in 1..Len(made) :
              /\ dtors_[i - 1] = DtorEntry(objs[made[i]].T, objs[made[i]].addr)
              /\ dtors_[i - 1].ptr = ok[i].result
        /\ (dtor_count_ = 0) <=> (offset_ = 0)

(* One object made after a reset of two: the second entry is stale. *)
C14_Witness ==
    /\ Len(prev) = 2 /\ Len(made) = 1
    /\ dtor_count_ = 1
    /\ dtors_[1] # NullEntry
    /\ pc = "live"

-----------------------------------------------------------------------------
(* Properties of the logger program (LoggerSpec, FairLoggerSpec). *)

(* The statements of FileHandle::write_line. *)
InWriteLine == {"check", "fputs", "fputc", "fflush", "throw_closed"}

(* From m_.lock() returning to m_.unlock(): inside log or log_then_throw,  *)
(* ScopedLock alive.                                                       *)
Holding == InWriteLine \cup {"unlock", "throw"}

(* The calls of log or log_then_throw that caller w has left. *)
CallsEnded(w) ==
    IF w = Main
    THEN (IF lpc[Main] \in {"leave_try", "catch", "done"} /\ nopen > 0 THEN 1 ELSE 0)
    ELSE tj[w]

AllLinesWritten == \A w \in Threads : written[w] = NumMessages

(* C15. Logger mutual exclusion: at most one thread at a time is inside    *)
(* FileHandle::write_line, and the text and the newline of a line are      *)
(* never separated by another thread's output.                             *)
C15_LoggerMutualExclusion ==
    /\ Cardinality({w \in Callers : lpc[w] \in InWriteLine}) <= 1
    /\ ~torn
    /\ partial # Free => lpc[partial] = "fputc"
    /\ \A w \in Threads : written[w] \in {tj[w], tj[w] + 1}

(* Thread 1 has written its text and not yet the newline while the two     *)
(* other threads, with lines of their own already in the file, wait.       *)
C15_Witness ==
    /\ lpc[1] = "fputc" /\ partial = 1
    /\ lpc[0] = "lock" /\ lpc[2] = "lock"
    /\ written[0] >= 1 /\ written[2] >= 1

(* C16. Lock release on every exit path: the mutex is held only by a       *)
(* thread inside log or log_then_throw, and once a call has ended, by      *)
(* return or by an exception, that thread has unlocked the mutex exactly   *)
(* once for the call, itself being the owner.                              *)
C16_LockReleased ==
    /\ mu_ # Free => lpc[mu_] \in Holding
    /\ ~ub
    /\ \A w \in Callers :
          /\ lpc[w] \in Holding => (mu_ = w /\ nlock[w] = nunlock[w] + 1)
          /\ lpc[w] \notin Holding
                => /\ mu_ # w
                   /\ nlock[w] = nunlock[w]
                   /\ nunlock[w] = CallsEnded(w)

(* log_then_throw has thrown, after the fifteen calls of log returned:    *)
(* sixteen locks, sixteen unlocks, the mutex free.                         *)
C16_Witness ==
    /\ lpc[Main] = "leave_try"
    /\ caught = "Intentional exception after writing"
    /\ nlock[Main] = 1 /\ nunlock[Main] = 1
    /\ \A w \in Threads : nlock[w] = NumMessages /\ nunlock[w] = NumMessages
    /\ mu_ = Free

(* C17. Logger progress, threads being scheduled: every call of log gets   *)
(* the mutex and returns, the three threads end, the fifteen lines are in  *)
(* the file before the line of log_then_throw, and main reaches its end,   *)
(* the file closed.                                                        *)
C17_LoggerProgress ==
    /\ <>(lpc[Main] = "done")
    /\ \A w \in Threads :
          /\ [](lpc[w] = "lock" => <>(lpc[w] = "loop"))
          /\ [](lpc[w] = "loop" => <>(lpc[w] = "done"))
    /\ []((partial = Main \/ written[Main] > 0) => AllLinesWritten)
    /\ [](lpc[Main] = "done"
            => /\ nopen > 0 => (AllLinesWritten /\ written[Main] = 1)
               /\ \A w \in Threads : lpc[w] = "done" \/ nopen = 0
               /\ nclose = nopen /\ file_ = nullptr /\ mu_ = Free)

(* The end of main with sixteen lines in the file. *)
C17_Witness ==
    /\ lpc[Main] = "done"
    /\ AllLinesWritten /\ written[Main] = 1
    /\ \A w \in Threads : lpc[w] = "done"
    /\ nclose = 1

-----------------------------------------------------------------------------
(* Properties of FileHandle (FileSpec). *)

(* The living handles whose fp_ is FILE f. *)
Owners(f) == {h \in Handles : alive[h] /\ fp_[h] = f}

(* C18. FileHandle closes once: every FILE opened is closed at most once   *)
(* and is open exactly while one living handle holds it, so it is closed   *)
(* when the last handle is gone; no FILE is held by two handles; and       *)
(* write_line on a handle whose fp_ is null, moved-from or closed, throws  *)
(* "File is closed" and writes nothing.                                    *)
C18_FileClosedOnce ==
    /\ ~fub
    /\ \A f \in Files :
          /\ closes[f] = (IF fstate[f] = "closed" THEN 1 ELSE 0)
          /\ Cardinality(Owners(f)) = (IF fstate[f] = "open" THEN 1 ELSE 0)
    /\ flast.op = "write_line" =>
          IF flast.fp = nullptr
          THEN flast.threw = "File is closed" /\ lines = flast.lines
          ELSE /\ flast.threw = ""
               /\ lines = [flast.lines EXCEPT ![flast.fp] = @ + 1]

(* A handle took over the second FILE by move assignment, which closed the *)
(* first; write_line on the moved-from handle has just thrown.             *)
C18_Witness ==
    /\ fstate[1] = "closed" /\ closes[1] = 1
    /\ fstate[2] = "open"
    /\ flast.op = "write_line" /\ flast.threw = "File is closed"
    /\ Cardinality({h \in Handles : alive[h]}) = 2
    /\ lines[1] > 0

=============================================================================
